---- MODULE Spec2Model ----
(***************************************************************************)
(* TabFS extension core (src/extension/background.js): the content-route   *)
(* adapter makeRouteWithContents with its handle Cache, route resolution   *)
(* (sortedRoutes / tryMatchRoute) and the dispatcher onMessage with its    *)
(* 1-second timer.                                                         *)
(*                                                                         *)
(* Conventions.  A JS string is a sequence of code points, a Uint8Array a  *)
(* sequence of 0..255, base64 text a sequence of alphabet indices 0..63    *)
(* with 64 for the pad character.  An optional JS value (undefined / null  *)
(* or a value v) is the sequence <<>> or <<v>>.  A path is the sequence of *)
(* its '/'-separated segments, a segment a sequence of one-character       *)
(* strings.                                                                *)
(***************************************************************************)
EXTENDS Integers, Sequences, FiniteSets, TLC

\* ---------------------------------------------------------------- bounds
MaxReq == 4
MaxHandle == 2
MaxOff == 1
MaxSize == 2
MaxInflight == 1

\* ------------------------------------------------------------- constants
unix == [EPERM |-> 1, ENOENT |-> 2, ESRCH |-> 3, EINTR |-> 4, EIO |-> 5,
         ENXIO |-> 6, ENOTSUP |-> 45, ETIMEDOUT |-> 110,
         S_IFREG |-> 32768]

ModeRead == 292

ModeWrite == 146

\* ------------------------------------------------------- bytes and text
RECURSIVE BitOr(_, _)
BitOr(a, b) ==
  IF a = 0 THEN b
  ELSE IF b = 0 THEN a
  ELSE (IF a % 2 = 1 \/ b % 2 = 1 THEN 1 ELSE 0) + 2 * BitOr(a \div 2, b \div 2)

Min(a, b) == IF a < b THEN a ELSE b

Max(a, b) == IF a < b THEN b ELSE a

\* arr.slice(from, to) with 0-based, end-exclusive, clamped indices
slice(arr, from, to) ==
  LET f == Min(Max(from, 0), Len(arr))
      t == Min(Max(to, 0), Len(arr))
  IN IF t <= f THEN <<>> ELSE SubSeq(arr, f + 1, t)

\* new Uint8Array(n): n zero bytes
Uint8Array(n) == [i \in 1..n |-> 0]

\* target.set(source, offset): copy source into target starting at offset
ArraySet(target, source, offset) ==
  [i \in 1..Len(target) |->
     IF i > offset /\ i <= offset + Len(source) THEN source[i - offset]
     ELSE target[i]]

\* TextEncoder("utf-8").encode of one code point
EncodeCodePoint(c) ==
  IF c < 128 THEN <<c>>
  ELSE IF c < 2048 THEN <<192 + (c \div 64), 128 + (c % 64)>>
  ELSE <<224 + (c \div 4096), 128 + ((c \div 64) % 64), 128 + (c % 64)>>

RECURSIVE stringToUtf8Array(_)
stringToUtf8Array(str) ==
  IF str = <<>> THEN <<>>
  ELSE EncodeCodePoint(Head(str)) \o stringToUtf8Array(Tail(str))

IsCont(b) == b >= 128 /\ b < 192

\* TextDecoder("utf-8").decode: malformed input becomes U+FFFD (65533)
RECURSIVE DecodeFrom(_)
DecodeFrom(u) ==
  IF u = <<>> THEN <<>>
  ELSE LET b == u[1]
           n == Len(u)
       IN IF b < 128 THEN <<b>> \o DecodeFrom(Tail(u))
          ELSE IF b >= 194 /\ b < 224
            THEN IF n >= 2 /\ IsCont(u[2])
                 THEN <<(b - 192) * 64 + (u[2] - 128)>> \o DecodeFrom(SubSeq(u, 3, n))
                 ELSE <<65533>> \o DecodeFrom(Tail(u))
          ELSE IF b >= 224 /\ b < 240
            THEN IF n >= 2 /\ IsCont(u[2])
                      /\ (b # 224 \/ u[2] >= 160) /\ (b # 237 \/ u[2] < 160)
                 THEN IF n >= 3 /\ IsCont(u[3])
                      THEN <<(b - 224) * 4096 + (u[2] - 128) * 64 + (u[3] - 128)>>
                           \o DecodeFrom(SubSeq(u, 4, n))
                      ELSE <<65533>> \o DecodeFrom(SubSeq(u, 3, n))
                 ELSE <<65533>> \o DecodeFrom(Tail(u))
          ELSE <<65533>> \o DecodeFrom(Tail(u))

utf8ArrayToString(utf8) ==
  IF Len(utf8) >= 3 /\ SubSeq(utf8, 1, 3) = <<239, 187, 191>>
  THEN DecodeFrom(SubSeq(utf8, 4, Len(utf8)))
  ELSE DecodeFrom(utf8)

\* toUtf8Array of a string (the accessors modelled here return strings)
toUtf8Array(stringOrArray) == stringToUtf8Array(stringOrArray)

\* String.fromCharCode(...bytes): one char per byte, code = byte value
fromCharCode(bytes) == bytes

\* btoa: binary string -> base64 text
RECURSIVE btoa(_)
btoa(s) ==
  IF s = <<>> THEN <<>>
  ELSE IF Len(s) = 1
    THEN <<s[1] \div 4, (s[1] % 4) * 16, 64, 64>>
  ELSE IF Len(s) = 2
    THEN <<s[1] \div 4, (s[1] % 4) * 16 + (s[2] \div 16), (s[2] % 16) * 4, 64>>
  ELSE <<s[1] \div 4, (s[1] % 4) * 16 + (s[2] \div 16),
         (s[2] % 16) * 4 + (s[3] \div 64), s[3] % 64>>
       \o btoa(SubSeq(s, 4, Len(s)))

\* atob: base64 text -> binary string
RECURSIVE atob(_)
atob(t) ==
  IF Len(t) < 4 THEN <<>>
  ELSE LET one == <<t[1] * 4 + (t[2] \div 16)>>
           two == IF t[3] = 64 THEN <<>>
                  ELSE <<(t[2] % 16) * 16 + (t[3] \div 4)>>
           three == IF t[3] = 64 \/ t[4] = 64 THEN <<>>
                    ELSE <<(t[3] % 4) * 64 + t[4]>>
       IN one \o two \o three \o atob(SubSeq(t, 5, Len(t)))

\* atob throws InvalidCharacterError unless the text, less the one or two pad
\* characters that may end a text of 4n characters, has only alphabet
\* characters and a length that is not 4n + 1
atobThrows(t) ==
  LET n == Len(t)
      pads == IF n % 4 = 0 /\ n >= 1 /\ t[n] = 64
              THEN (IF t[n - 1] = 64 THEN 2 ELSE 1)
              ELSE 0
      body == SubSeq(t, 1, n - pads)
  IN Len(body) % 4 = 1 \/ \E i \in 1..Len(body) : body[i] = 64

\* ------------------------------------------------------ paths and routes
Lit(s) == [var |-> FALSE, s |-> s]

Var(name) == [var |-> TRUE, s |-> name]

SegTabsJson == <<"t", "a", "b", "s", ".", "j", "s", "o", "n">>

SegRwTxt == <<"r", "w", ".", "t", "x", "t">>

SegTabs == <<"t", "a", "b", "s">>

SegLast == <<"l", "a", "s", "t">>

SegSeven == <<"7">>

SegNope == <<"n", "o", "p", "e">>

SegSidecar == <<".", "_", "x">>

SegDotUnderscore == <<".", "_">>

\* Routes["/tabs.json"]: a content route built with a read accessor only
RouteTabsJson ==
  [key |-> <<Lit(SegTabsJson)>>, content |-> TRUE, setData |-> FALSE]

\* a content route built with a read accessor and a write accessor
RouteRwTxt ==
  [key |-> <<Lit(SegRwTxt)>>, content |-> TRUE, setData |-> TRUE]

\* routes with variable segments; they carry none of the file operations
RouteTabsLast ==
  [key |-> <<Lit(SegTabs), Lit(SegLast)>>, content |-> FALSE, setData |-> FALSE]

RouteTabsId ==
  [key |-> <<Lit(SegTabs), Var(<<"i", "d">>)>>, content |-> FALSE, setData |-> FALSE]

RouteDirName ==
  [key |-> <<Var(<<"d", "i", "r">>), Var(<<"n", "a", "m", "e">>)>>,
   content |-> FALSE, setData |-> FALSE]

AllRoutes == {RouteTabsJson, RouteRwTxt, RouteTabsLast, RouteTabsId, RouteDirName}

\* the registration order of window.Routes in the dispatcher's specification
DefaultRoutes == <<RouteDirName, RouteTabsId, RouteTabsLast, RouteTabsJson, RouteRwTxt>>

PathTabsJson == <<SegTabsJson>>

PathRwTxt == <<SegRwTxt>>

ContentPaths == {PathTabsJson, PathRwTxt}

OtherPaths == {<<SegNope>>, <<SegSidecar>>, <<SegDotUnderscore>>,
               <<SegTabs, SegSeven>>, <<SegTabs, SegSidecar>>}

Paths == ContentPaths \cup OtherPaths

\* route.__matchVarCount: the number of variable segments of the pattern
matchVarCount(route) ==
  Cardinality({i \in 1..Len(route.key) : route.key[i].var})

\* route.__match(path): null (<<>>) or the bindings (<<vars>>), vars being the
\* <<name, value>> pairs of the variable segments in pattern order
RECURSIVE Bindings(_, _)
Bindings(key, path) ==
  IF key = <<>> THEN <<>>
  ELSE (IF Head(key).var THEN <<<<Head(key).s, Head(path)>>>> ELSE <<>>)
       \o Bindings(Tail(key), Tail(path))

match(route, path) ==
  IF Len(route.key) = Len(path)
     /\ \A i \in 1..Len(path) : route.key[i].var \/ route.key[i].s = path[i]
  THEN <<Bindings(route.key, path)>>
  ELSE <<>>

\* Array.prototype.sort with comparator a.__matchVarCount - b.__matchVarCount
\* (a stable sort: routes of equal count keep their registration order)
RECURSIVE InsertSorted(_, _)
InsertSorted(sorted, r) ==
  IF sorted = <<>> THEN <<r>>
  ELSE IF matchVarCount(r) - matchVarCount(Head(sorted)) < 0
    THEN <<r>> \o sorted
    ELSE <<Head(sorted)>> \o InsertSorted(Tail(sorted), r)

RECURSIVE SortRoutes(_)
SortRoutes(rs) ==
  IF rs = <<>> THEN <<>>
  ELSE InsertSorted(SortRoutes(SubSeq(rs, 1, Len(rs) - 1)), rs[Len(rs)])

\* path.match(/\/\._[^\/]+$/): the last segment is "._" plus at least one char
IsAppleDouble(path) ==
  /\ path # <<>>
  /\ LET last == path[Len(path)]
     IN Len(last) >= 3 /\ last[1] = "." /\ last[2] = "_"

\* ------------------------------------------------------------------ state
VARIABLES
  Routes,    \* window.Routes: the routes in registration order
  Cache,     \* Cache.store (handle -> {path, object}) and Cache.nextHandle
  heap,      \* the Uint8Array objects the cache refers to: reference -> bytes
  reqs,      \* requests suspended at an await: id -> frame of onMessage (the
             \* request, the await it is at, didTimeout, and as history the
             \* responses posted for it so far)
  nextId,    \* the id the host gives its next request
  opened,    \* history: per open handle, the bytes stored by open, and whether
             \* a write on it or a truncate on its path has happened since
  issued,    \* history: the handle ids open has returned so far
  ev,        \* history: the last step taken: its request, the response it
             \* posted, every response posted for that request so far, what
             \* getData resolved with (<<v>>), what it passed to setData
  matched    \* the last result of tryMatchRoute (route-resolution specification)

vars == <<Routes, Cache, heap, reqs, nextId, opened, issued, ev, matched>>

\* mutant: the routes are tried in registration order
unsortedRoutes == Routes

\* most specific (lowest matchVarCount) routes should match first
sortedRoutes == SortRoutes(Routes)

\* mutant: falling out of the loop throws a plain Error, not a UnixError
RECURSIVE FirstMatchPlainError(_, _)
FirstMatchPlainError(routes, path) ==
  IF routes = <<>> THEN [error |-> unix.EIO, route |-> <<>>, vars |-> <<>>]
  ELSE LET vs == match(Head(routes), path)
       IN IF vs # <<>> THEN [error |-> 0, route |-> <<Head(routes)>>, vars |-> vs[1]]
          ELSE FirstMatchPlainError(Tail(routes), path)

RECURSIVE FirstMatch(_, _)
FirstMatch(routes, path) ==
  IF routes = <<>> THEN [error |-> unix.ENOENT, route |-> <<>>, vars |-> <<>>]
  ELSE LET vs == match(Head(routes), path)
       IN IF vs # <<>> THEN [error |-> 0, route |-> <<Head(routes)>>, vars |-> vs[1]]
          ELSE FirstMatch(Tail(routes), path)

\* mutant: no test for AppleDouble names
tryMatchRouteAnyName(path) == FirstMatch(sortedRoutes, path)

\* tryMatchRoute(path): [route, vars], or the UnixError thrown (error # 0)
tryMatchRoute(path) ==
  IF IsAppleDouble(path)
  THEN [error |-> unix.ENOTSUP, route |-> <<>>, vars |-> <<>>]
  ELSE FirstMatch(sortedRoutes, path)

\* ------------------------------------------------------------------ Cache
FreshRef(hp) == CHOOSE r \in 1..(Cardinality(DOMAIN hp) + 1) : r \notin DOMAIN hp

\* drop the arrays no cache entry refers to any more
Collect(c, hp) ==
  [r \in {c.store[h].object : h \in DOMAIN c.store} |-> hp[r]]

\* mutant: the handle is the number of live entries plus one
storeObjectReuse(c, path, object) ==
  LET handle == Cardinality(DOMAIN c.store) + 1
  IN [store |-> [h \in DOMAIN c.store \cup {handle} |->
                   IF h = handle THEN [path |-> path, object |-> object]
                   ELSE c.store[h]],
      nextHandle |-> handle]

storeObject(c, path, object) ==
  LET handle == c.nextHandle + 1
  IN [store |-> [h \in DOMAIN c.store \cup {handle} |->
                   IF h = handle THEN [path |-> path, object |-> object]
                   ELSE c.store[h]],
      nextHandle |-> handle]

getObjectForHandle(c, handle) == c.store[handle].object

setObjectForHandle(c, handle, object) ==
  [c EXCEPT !.store[handle].object = object]

removeObjectForHandle(c, handle) ==
  [c EXCEPT !.store = [h \in DOMAIN c.store \ {handle} |-> c.store[h]]]

\* mutant: the loop stops at the first entry of the path
setObjectForPathFirst(c, path, object) ==
  LET hs == {h \in DOMAIN c.store : c.store[h].path = path}
  IN IF hs = {} THEN c
     ELSE [c EXCEPT !.store[CHOOSE h \in hs : \A g \in hs : h <= g].object = object]

setObjectForPath(c, path, object) ==
  [c EXCEPT !.store = [h \in DOMAIN c.store |->
                         IF c.store[h].path = path
                         THEN [c.store[h] EXCEPT !.object = object]
                         ELSE c.store[h]]]

Bytes(h) == heap[Cache.store[h].object]

\* --------------------------------------------------- makeRouteWithContents
\* What a handler did: the cache and heap it leaves, the exception it threw
\* (<<>>: none), the object it returned, whether it is now suspended awaiting
\* setData, and the text it handed to setData (<<>>: setData was not called).
Outcome(c, hp, thrown, result, await, arg) ==
  [cache |-> c, heap |-> Collect(c, hp), thrown |-> thrown, result |-> result,
   await |-> await, arg |-> arg]

UnixError(error) == <<[name |-> "UnixError", error |-> error]>>

TypeError == <<[name |-> "TypeError", error |-> 0]>>

NoResult == [none |-> TRUE]

\* mutant: st_size is the text's length in code units
getattrCharCount(c, hp, route, got) ==
  IF got = <<>> THEN Outcome(c, hp, UnixError(unix.ENOENT), NoResult, FALSE, <<>>)
  ELSE Outcome(c, hp, <<>>,
         [st_mode |-> BitOr(BitOr(unix.S_IFREG, ModeRead),
                            IF route.setData THEN ModeWrite ELSE 0),
          st_nlink |-> 1,
          st_size |-> Len(got[1])],
         FALSE, <<>>)

\* getattr, from the point where `await getData(req)` has resolved with got
getattr(c, hp, route, got) ==
  IF got = <<>> THEN Outcome(c, hp, UnixError(unix.ENOENT), NoResult, FALSE, <<>>)
  ELSE Outcome(c, hp, <<>>,
         [st_mode |-> BitOr(BitOr(unix.S_IFREG, ModeRead),
                            IF route.setData THEN ModeWrite ELSE 0),
          st_nlink |-> 1,
          st_size |-> Len(toUtf8Array(got[1]))],
         FALSE, <<>>)

\* mutant: open stores the entry before it looks at what getData returned
openStoreFirst(c, hp, req, got) ==
  LET ref == FreshRef(hp)
      hp2 == [r \in DOMAIN hp \cup {ref} |->
                IF r = ref THEN (IF got = <<>> THEN <<>> ELSE toUtf8Array(got[1]))
                ELSE hp[r]]
      c2 == storeObject(c, req.path, ref)
  IN IF got = <<>>
     THEN Outcome(c2, hp2, UnixError(unix.ENOENT), NoResult, FALSE, <<>>)
     ELSE Outcome(c2, hp2, <<>>, [fh |-> c2.nextHandle], FALSE, <<>>)

\* mutant: open caches the text's code units instead of its UTF-8 bytes
openRaw(c, hp, req, got) ==
  IF got = <<>> THEN Outcome(c, hp, UnixError(unix.ENOENT), NoResult, FALSE, <<>>)
  ELSE LET ref == FreshRef(hp)
           hp2 == [r \in DOMAIN hp \cup {ref} |-> IF r = ref THEN got[1] ELSE hp[r]]
           c2 == storeObject(c, req.path, ref)
       IN Outcome(c2, hp2, <<>>, [fh |-> c2.nextHandle], FALSE, <<>>)

\* open, from the point where `await getData(req)` has resolved with got
open(c, hp, req, got) ==
  IF got = <<>> THEN Outcome(c, hp, UnixError(unix.ENOENT), NoResult, FALSE, <<>>)
  ELSE LET ref == FreshRef(hp)
           hp2 == [r \in DOMAIN hp \cup {ref} |->
                     IF r = ref THEN toUtf8Array(got[1]) ELSE hp[r]]
           c2 == storeObject(c, req.path, ref)
       IN Outcome(c2, hp2, <<>>, [fh |-> c2.nextHandle], FALSE, <<>>)

\* mutant: size is taken for the end index of the slice
readSizeAsEnd(c, hp, req) ==
  IF req.fh \notin DOMAIN c.store
  THEN Outcome(c, hp, TypeError, NoResult, FALSE, <<>>)
  ELSE Outcome(c, hp, <<>>,
         [buf |-> fromCharCode(slice(hp[getObjectForHandle(c, req.fh)],
                                     req.offset, req.size))],
         FALSE, <<>>)

read(c, hp, req) ==
  IF req.fh \notin DOMAIN c.store
  THEN Outcome(c, hp, TypeError, NoResult, FALSE, <<>>)
  ELSE Outcome(c, hp, <<>>,
         [buf |-> fromCharCode(slice(hp[getObjectForHandle(c, req.fh)],
                                     req.offset, req.offset + req.size))],
         FALSE, <<>>)

\* mutant: setData is handed the text of the written slice only
writeSlice(c, hp, route, req) ==
  IF req.fh \notin DOMAIN c.store
  THEN Outcome(c, hp, TypeError, NoResult, FALSE, <<>>)
  ELSE LET old == getObjectForHandle(c, req.fh)
           arr == hp[old]
           bufarr == stringToUtf8Array(req.buf)
           grow == req.offset + Len(bufarr) > Len(arr)
           ref == IF grow THEN FreshRef(hp) ELSE old
           newArr == ArraySet(Uint8Array(req.offset + Len(bufarr)),
                              slice(arr, 0, Min(req.offset, Len(arr))), 0)
           final == ArraySet(IF grow THEN newArr ELSE arr, bufarr, req.offset)
           hp2 == [r \in DOMAIN hp \cup {ref} |-> IF r = ref THEN final ELSE hp[r]]
           c2 == IF grow THEN setObjectForHandle(c, req.fh, ref) ELSE c
       IN IF route.setData
          THEN Outcome(c2, hp2, <<>>, NoResult, TRUE,
                       <<utf8ArrayToString(bufarr)>>)
          ELSE Outcome(c2, hp2, TypeError, NoResult, FALSE, <<>>)

\* write, up to and including the call of setData
write(c, hp, route, req) ==
  IF req.fh \notin DOMAIN c.store
  THEN Outcome(c, hp, TypeError, NoResult, FALSE, <<>>)
  ELSE LET old == getObjectForHandle(c, req.fh)
           arr == hp[old]
           bufarr == stringToUtf8Array(req.buf)
           grow == req.offset + Len(bufarr) > Len(arr)
           ref == IF grow THEN FreshRef(hp) ELSE old
           newArr == ArraySet(Uint8Array(req.offset + Len(bufarr)),
                              slice(arr, 0, Min(req.offset, Len(arr))), 0)
           final == ArraySet(IF grow THEN newArr ELSE arr, bufarr, req.offset)
           hp2 == [r \in DOMAIN hp \cup {ref} |-> IF r = ref THEN final ELSE hp[r]]
           c2 == IF grow THEN setObjectForHandle(c, req.fh, ref) ELSE c
       IN IF route.setData
          THEN Outcome(c2, hp2, <<>>, NoResult, TRUE,
                       <<utf8ArrayToString(final)>>)
          ELSE Outcome(c2, hp2, TypeError, NoResult, FALSE, <<>>)

release(c, hp, req) ==
  Outcome(removeObjectForHandle(c, req.fh), hp, <<>>, [x \in {} |-> 0], FALSE, <<>>)

\* truncate, from the point where `await getData(req)` has resolved with got,
\* up to and including the call of setData
truncate(c, hp, route, req, got) ==
  IF got = <<>> THEN Outcome(c, hp, TypeError, NoResult, FALSE, <<>>)
  ELSE LET arr == toUtf8Array(got[1])
           newArr == ArraySet(Uint8Array(req.size),
                              slice(arr, 0, Min(req.size, Len(arr))), 0)
           final == IF req.size # Len(arr) THEN newArr ELSE arr
           ref == FreshRef(hp)
           hp2 == [r \in DOMAIN hp \cup {ref} |-> IF r = ref THEN final ELSE hp[r]]
           c2 == setObjectForPath(c, req.path, ref)
       IN IF route.setData
          THEN Outcome(c2, hp2, <<>>, NoResult, TRUE,
                       <<utf8ArrayToString(final)>>)
          ELSE Outcome(c2, hp2, TypeError, NoResult, FALSE, <<>>)

\* -------------------------------------------------------------- onMessage
Ops == {"getattr", "open", "read", "write", "release", "truncate", "readdir"}

ContentOps == Ops \ {"readdir"}

Payloads == {<<88>>, <<233>>}

\* what a read accessor may return: undefined, "" or a non-ASCII text
DataVals == {<<>>, << <<>> >>, << <<233>> >>}

\* how `await getData(req)` may end: rejected, or resolved with a value
GetResults ==
  {[ok |-> FALSE, got |-> <<>>]} \cup {[ok |-> TRUE, got |-> v] : v \in DataVals}

Req(id, op, path, fh, offset, size, buf) ==
  [id |-> id, op |-> op, path |-> path, fh |-> fh, offset |-> offset,
   size |-> size, buf |-> buf]

\* a buf that is not base64: the single character "W"
BadBuf == <<22>>

\* the requests the host may send with a given id (buf in its base64 form)
Requests(id) ==
  {Req(id, "write", PathRwTxt, 1, 0, 0, BadBuf)} \cup
  {Req(id, op, p, 0, 0, 0, <<>>) : op \in {"getattr", "open"}, p \in ContentPaths}
  \cup {Req(id, "readdir", PathTabsJson, 0, 0, 0, <<>>)}
  \cup {Req(id, "getattr", p, 0, 0, 0, <<>>) : p \in OtherPaths}
  \cup {Req(id, "read", PathTabsJson, fh, o, n, <<>>) :
          fh \in 1..MaxHandle, o \in 0..MaxOff, n \in 0..MaxSize}
  \cup {Req(id, "write", p, fh, o, 0, btoa(b)) :
          p \in ContentPaths, fh \in 1..MaxHandle, o \in 0..MaxOff, b \in Payloads}
  \cup {Req(id, "release", PathTabsJson, fh, 0, 0, <<>>) : fh \in 1..MaxHandle}
  \cup {Req(id, "truncate", p, 0, 0, n, <<>>) : p \in ContentPaths, n \in 0..MaxSize}

\* if (req.buf) req.buf = atob(req.buf)
Decode(wire) == [wire EXCEPT !.buf = IF @ # <<>> THEN atob(@) ELSE @]

\* e instanceof UnixError ? e.error : unix.EIO
ErrorCode(e) == IF e.name = "UnixError" THEN e.error ELSE unix.EIO

ErrorResponse(req, e) == [id |-> req.id, op |-> req.op, error |-> ErrorCode(e)]

\* mutant: the timer callback reports the generic I/O error
TimeoutResponseEIO(req) == [id |-> req.id, op |-> req.op, error |-> unix.EIO]

TimeoutResponse(req) == [id |-> req.id, op |-> req.op, error |-> unix.ETIMEDOUT]

\* mutant: the handler's fields are merged into the initial response object
\* { op, error: EIO } instead of replacing it
SuccessResponseMerged(req, result) ==
  LET enc == IF "buf" \in DOMAIN result /\ result.buf # <<>>
             THEN [result EXCEPT !.buf = btoa(@)] ELSE result
  IN [k \in DOMAIN enc \cup {"op", "id", "error"} |->
        IF k = "op" THEN req.op ELSE IF k = "id" THEN req.id
        ELSE IF k = "error" THEN unix.EIO ELSE enc[k]]

\* response.op = req.op; if (response.buf) response.buf = btoa(response.buf);
\* response.id = req.id
SuccessResponse(req, result) ==
  LET enc == IF "buf" \in DOMAIN result /\ result.buf # <<>>
             THEN [result EXCEPT !.buf = btoa(@)] ELSE result
  IN [k \in DOMAIN enc \cup {"op", "id"} |->
        IF k = "op" THEN req.op ELSE IF k = "id" THEN req.id ELSE enc[k]]

ResponseOf(req, out) ==
  IF out.thrown # <<>> THEN ErrorResponse(req, out.thrown[1])
  ELSE SuccessResponse(req, out.result)

\* mutant: the continuation posts its response whatever the timer did
ShouldPostAlways(didTimeout) == TRUE

\* if (!didTimeout) { clearTimeout(timeout); ...; port.postMessage(response) }
ShouldPost(didTimeout) == ~didTimeout

Event(kind, req, resp, sent, got, arg) ==
  [kind |-> kind, req |-> req, resp |-> resp, sent |-> sent, got |-> got, arg |-> arg]

SentFor(id) == IF id \in DOMAIN reqs THEN reqs[id].sent ELSE <<>>

\* history: the handle an open has just returned
Returned_fh(out) ==
  IF out.thrown = <<>> /\ "fh" \in DOMAIN out.result THEN {out.result.fh} ELSE {}

\* history: which handles were opened, and which a write or truncate reached
Track(out, req, got, ran) ==
  [h \in DOMAIN out.cache.store |->
     IF h \notin DOMAIN Cache.store
     THEN [orig |-> IF got = <<>> THEN <<>> ELSE got[1], touched |-> FALSE]
     ELSE [opened[h] EXCEPT !.touched =
             \/ @
             \/ ran /\ req.op = "write" /\ req.fh = h
             \/ ran /\ req.op = "truncate" /\ got # <<>>
                    /\ Cache.store[h].path = req.path]]

\* the handler has settled (returned or thrown) with outcome out: the rest of
\* onMessage from the end of the try/catch
Settle(kind, req, didTimeout, out, got, seen) ==
  LET resp == ResponseOf(req, out)
  IN /\ Cache' = out.cache
     /\ heap' = out.heap
     /\ opened' = Track(out, req, got, kind # "set")
     /\ issued' = issued \cup Returned_fh(out)
     /\ reqs' = [i \in DOMAIN reqs \ {req.id} |-> reqs[i]]
     /\ ev' = LET now == IF ShouldPost(didTimeout) THEN <<resp>> ELSE <<>>
              IN Event(kind, req, now, SentFor(req.id) \o now, seen, out.arg)

\* the handler is suspended at an await (of getData or of setData)
Suspend(kind, req, didTimeout, pc, out, got, seen) ==
  /\ Cache' = out.cache
  /\ heap' = out.heap
  /\ opened' = Track(out, req, got, TRUE)
  /\ issued' = issued
  /\ reqs' = [i \in DOMAIN reqs \cup {req.id} |->
                IF i = req.id
                THEN [req |-> req, pc |-> pc, didTimeout |-> didTimeout,
                      sent |-> SentFor(req.id)]
                ELSE reqs[i]]
  /\ ev' = Event(kind, req, <<>>, SentFor(req.id), seen, out.arg)

Idle(c, hp) == Outcome(c, hp, <<>>, NoResult, FALSE, <<>>)

\* atob(req.buf) threw on the first line of onMessage, outside the try block
\* and before the timer is set: the promise of onMessage rejects, nothing is
\* posted and no timer is left
Drop(wire) ==
  /\ ev' = Event("drop", wire, <<>>, <<>>, <<>>, <<>>)
  /\ UNCHANGED <<Cache, heap, reqs, opened, issued>>

\* onMessage(req) from its first line to the first await that suspends it
Receive(wire) ==
  /\ nextId <= MaxReq
  /\ Cardinality(DOMAIN reqs) < MaxInflight
  /\ wire.op = "open" =>
       Cache.nextHandle
       + Cardinality({i \in DOMAIN reqs : reqs[i].req.op = "open"}) < MaxHandle
  /\ nextId' = nextId + 1
  /\ LET req == Decode(wire)
         m == tryMatchRoute(req.path)
         route == m.route[1]
     IN IF wire.buf # <<>> /\ atobThrows(wire.buf)
        THEN Drop(wire)
        ELSE IF m.error # 0
        THEN Settle("recv", req, FALSE,
                    Outcome(Cache, heap, UnixError(m.error), NoResult, FALSE, <<>>),
                    <<>>, <<>>)
        ELSE IF ~route.content \/ req.op \notin ContentOps
        THEN Settle("recv", req, FALSE,
                    Outcome(Cache, heap, TypeError, NoResult, FALSE, <<>>), <<>>, <<>>)
        ELSE IF req.op \in {"getattr", "open", "truncate"}
        THEN Suspend("recv", req, FALSE, "getData", Idle(Cache, heap), <<>>, <<>>)
        ELSE LET out == IF req.op = "read" THEN read(Cache, heap, req)
                        ELSE IF req.op = "write" THEN write(Cache, heap, route, req)
                        ELSE release(Cache, heap, req)
             IN IF out.await
                THEN Suspend("recv", req, FALSE, "setData", out, <<>>, <<>>)
                ELSE Settle("recv", req, FALSE, out, <<>>, <<>>)
  /\ UNCHANGED <<Routes, matched>>

\* `await getData(req)` settles as res says, and the handler runs on
ResumeGet(id, res) ==
  /\ id \in DOMAIN reqs
  /\ reqs[id].pc = "getData"
  /\ LET f == reqs[id]
         req == f.req
         route == tryMatchRoute(req.path).route[1]
         out == IF ~res.ok THEN Outcome(Cache, heap, TypeError, NoResult, FALSE, <<>>)
                ELSE IF req.op = "getattr" THEN getattr(Cache, heap, route, res.got)
                ELSE IF req.op = "open" THEN open(Cache, heap, req, res.got)
                ELSE truncate(Cache, heap, route, req, res.got)
         seen == IF res.ok THEN <<res.got>> ELSE <<>>
     IN IF out.await
        THEN Suspend("get", req, f.didTimeout, "setData", out, res.got, seen)
        ELSE Settle("get", req, f.didTimeout, out, res.got, seen)
  /\ UNCHANGED <<Routes, nextId, matched>>

\* what write and truncate return once `await setData(...)` has resolved
Returned(req) ==
  IF req.op = "write" THEN [size |-> Len(stringToUtf8Array(req.buf))]
  ELSE [x \in {} |-> 0]

\* `await setData(req, text)` resolves (ok) or rejects, and the handler returns
ResumeSet(id, ok) ==
  /\ id \in DOMAIN reqs
  /\ reqs[id].pc = "setData"
  /\ LET f == reqs[id]
         out == IF ok THEN Outcome(Cache, heap, <<>>, Returned(f.req), FALSE, <<>>)
                ELSE Outcome(Cache, heap, TypeError, NoResult, FALSE, <<>>)
     IN Settle("set", f.req, f.didTimeout, out, <<>>, <<>>)
  /\ UNCHANGED <<Routes, nextId, matched>>

\* the setTimeout callback of a request whose handler is still suspended
Timeout(id) ==
  /\ id \in DOMAIN reqs
  /\ ~reqs[id].didTimeout
  /\ reqs' = [reqs EXCEPT ![id].didTimeout = TRUE,
                          ![id].sent = Append(@, TimeoutResponse(reqs[id].req))]
  /\ ev' = Event("timer", reqs[id].req, <<TimeoutResponse(reqs[id].req)>>,
                 Append(reqs[id].sent, TimeoutResponse(reqs[id].req)), <<>>, <<>>)
  /\ UNCHANGED <<Routes, Cache, heap, nextId, opened, issued, matched>>

NoMatch == [path |-> <<>>, error |-> 0, route |-> <<>>, vars |-> <<>>]

Init ==
  /\ Routes = DefaultRoutes
  /\ Cache = [store |-> <<>>, nextHandle |-> 0]
  /\ heap = <<>>
  /\ reqs = <<>>
  /\ nextId = 1
  /\ opened = <<>>
  /\ issued = {}
  /\ ev = Event("init", Req(0, "", <<>>, 0, 0, 0, <<>>), <<>>, <<>>, <<>>, <<>>)
  /\ matched = NoMatch

Next ==
  \/ \E wire \in Requests(nextId) : Receive(wire)
  \/ \E id \in DOMAIN reqs, res \in GetResults : ResumeGet(id, res)
  \/ \E id \in DOMAIN reqs, ok \in BOOLEAN : ResumeSet(id, ok)
  \/ \E id \in DOMAIN reqs : Timeout(id)

Spec == Init /\ [][Next]_vars

\* the event loop runs a due timer callback: a timer that stays armed fires
FairSpec == Spec /\ \A id \in 1..MaxReq : WF_vars(Timeout(id))

\* ------------------------------------------------- route resolution alone
RECURSIVE Orders(_)
Orders(S) ==
  IF S = {} THEN {<<>>}
  ELSE UNION {{<<r>> \o t : t \in Orders(S \ {r})} : r \in S}

RoutePaths == Paths \cup {<<SegTabs, SegLast>>}

\* any registration order of the routes
RouteInit ==
  /\ Routes \in Orders(AllRoutes)
  /\ Cache = [store |-> <<>>, nextHandle |-> 0]
  /\ heap = <<>>
  /\ reqs = <<>>
  /\ nextId = 1
  /\ opened = <<>>
  /\ issued = {}
  /\ ev = Event("init", Req(0, "", <<>>, 0, 0, 0, <<>>), <<>>, <<>>, <<>>, <<>>)
  /\ matched = NoMatch

Resolve(path) ==
  /\ matched' = LET m == tryMatchRoute(path)
                IN [path |-> path, error |-> m.error, route |-> m.route, vars |-> m.vars]
  /\ UNCHANGED <<Routes, Cache, heap, reqs, nextId, opened, issued, ev>>

RouteNext == \E path \in RoutePaths : Resolve(path)

RouteSpec == RouteInit /\ [][RouteNext]_vars


\* ------------------------------------------------------------------ claims
ExpectedTimeout(req) == [id |-> req.id, op |-> req.op, error |-> unix.ETIMEDOUT]

\* the last step was the handler of ev.req settling (returning or throwing)
Settled == ev.kind \in {"recv", "get", "set"} /\ ev.req.id \notin DOMAIN reqs

Succeeded == ev.resp # <<>> /\ "error" \notin DOMAIN ev.resp[1]

Prefix(seq, n) == SubSeq(seq, 1, Min(n, Len(seq)))

\* C1: for every request, onMessage posts at most one response, whether the
\* timer fires before or after the handler settles.
C1_AtMostOneResponse ==
  /\ Len(ev.sent) <= 1
  /\ \A id \in DOMAIN reqs : Len(reqs[id].sent) <= 1

\* the handler settled after the timer had fired, and posted nothing more
C1_Witness ==
  /\ Settled
  /\ ev.kind \in {"get", "set"}
  /\ ev.resp = <<>>
  /\ Len(ev.sent) = 1

\* C2: a request whose handler stays suspended gets exactly one response, the
\* ETIMEDOUT one, and once the timer has fired that response is the only one
\* the request ever gets, also when the handler settles afterwards.
C2_TimeoutWins ==
  /\ [](\A id \in DOMAIN reqs :
          reqs[id].didTimeout => reqs[id].sent = <<ExpectedTimeout(reqs[id].req)>>)
  /\ []((Settled /\ ev.resp = <<>>) => ev.sent = <<ExpectedTimeout(ev.req)>>)
  /\ \A id \in 1..MaxReq :
       <>[](id \in DOMAIN reqs)
       => <>[](id \in DOMAIN reqs /\ reqs[id].sent = <<ExpectedTimeout(reqs[id].req)>>)

\* a handler that settled (here: threw) after the timer fired first
C2_Witness ==
  /\ Settled
  /\ ev.kind = "get"
  /\ ev.got = <<>>
  /\ ev.resp = <<>>
  /\ ev.sent = <<ExpectedTimeout(ev.req)>>

\* the last step was a successful read at offset 0
ReadAtZero ==
  /\ ev.kind = "recv"
  /\ ev.req.op = "read"
  /\ ev.req.offset = 0
  /\ Succeeded
  /\ ev.req.fh \in DOMAIN Cache.store

\* C3 as stated: read(h, 0, N) returns the first N bytes of the UTF-8 encoding
\* of what the read accessor returned when h was opened.
C3_ReadReturnsOpenTimeData ==
  ReadAtZero =>
    atob(ev.resp[1].buf)
      = Prefix(stringToUtf8Array(opened[ev.req.fh].orig), ev.req.size)

\* C3 amended: the same, for a handle that no write has gone through and whose
\* path no truncate has reached since it was opened; such a handle's buffer
\* is the encoding of the open-time text, and read never awaits the accessor.
C3_CacheIsolation ==
  /\ (ReadAtZero /\ ~opened[ev.req.fh].touched) =>
       atob(ev.resp[1].buf)
         = Prefix(stringToUtf8Array(opened[ev.req.fh].orig), ev.req.size)
  /\ \A h \in DOMAIN Cache.store :
       ~opened[h].touched => Bytes(h) = stringToUtf8Array(opened[h].orig)
  /\ ev.req.op = "read" => ev.kind = "recv" /\ ev.got = <<>>

\* a read on a pristine handle after the accessor returned something else to
\* a later open of the same path
C3_Witness ==
  /\ ReadAtZero
  /\ ~opened[ev.req.fh].touched
  /\ ev.req.size >= 1
  /\ ev.resp[1].buf # <<>>
  /\ \E h \in DOMAIN Cache.store :
       /\ h > ev.req.fh
       /\ Cache.store[h].path = Cache.store[ev.req.fh].path
       /\ opened[h].orig # opened[ev.req.fh].orig

Resized(src, n) == [i \in 1..n |-> IF i <= Len(src) THEN src[i] ELSE 0]

\* the last step was truncate resuming with the text the accessor returned
TruncateRan ==
  /\ ev.kind = "get"
  /\ ev.req.op = "truncate"
  /\ ev.got # <<>>
  /\ ev.got[1] # <<>>

\* C4: truncate resizes what the read accessor returned to newSize bytes
\* (cutting the tail or padding with zeros) and every handle open on the path
\* then holds that buffer.
C4_TruncateAllHandles ==
  TruncateRan =>
    \A h \in DOMAIN Cache.store :
      Cache.store[h].path = ev.req.path =>
        Bytes(h) = Resized(stringToUtf8Array(ev.got[1][1]), ev.req.size)

\* a shrinking truncate with two handles open on the path, one of them opened
\* on a text other than the one truncate fetched
C4_Witness ==
  /\ TruncateRan
  /\ ev.req.size < Len(stringToUtf8Array(ev.got[1][1]))
  /\ Cardinality({h \in DOMAIN Cache.store : Cache.store[h].path = ev.req.path}) = 2
  /\ \E h \in DOMAIN Cache.store :
       Cache.store[h].path = ev.req.path /\ opened[h].orig # ev.got[1][1]

\* the handles release has removed
Released == (1..Cache.nextHandle) \ DOMAIN Cache.store

\* C5: a read, write or release naming a released handle gets an error
\* response.
C5_ReleasedHandleRejected ==
  [][(/\ ev'.kind = "recv"
      /\ nextId' = nextId + 1
      /\ ev'.req.op \in {"read", "write", "release"}
      /\ ev'.req.path \in ContentPaths
      /\ ev'.req.fh \in Released)
     => (ev'.resp # <<>> /\ "error" \in DOMAIN ev'.resp[1])]_vars


\* the last step ran write's buffer update on a handle that was open
WriteStep ==
  /\ ev'.kind = "recv"
  /\ nextId' = nextId + 1
  /\ ev'.req.op = "write"
  /\ ev'.req.path \in ContentPaths
  /\ ev'.req.fh \in DOMAIN Cache.store

\* C6: after write(h, offset, buf) the buffer of h has length
\* max(oldLength, offset + len(buf)), holds buf at [offset, offset + len(buf)),
\* keeps every other old byte, and is zero in the gap [oldLength, offset).
C6_WriteLayout ==
  [][WriteStep =>
       LET h == ev'.req.fh
           old == Bytes(h)
           new == heap'[Cache'.store[h].object]
           b == ev'.req.buf
           o == ev'.req.offset
       IN /\ Len(new) = Max(Len(old), o + Len(b))
          /\ \A i \in 1..Len(new) :
               new[i] = IF i > o /\ i <= o + Len(b) THEN b[i - o]
                        ELSE IF i <= Len(old) THEN old[i]
                        ELSE 0]_vars

Registered == {Routes[i] : i \in 1..Len(Routes)}

Resolved == matched.path # <<>>

\* registered routes R1 with k and R2 with k + 1 variables, both matching path
BothMatch(R1, R2, path) ==
  /\ matchVarCount(R2) = matchVarCount(R1) + 1
  /\ match(R1, path) # <<>>
  /\ match(R2, path) # <<>>

\* C7 as stated: whenever R1 with k and R2 with k + 1 variables both match
\* path, tryMatchRoute(path) returns R1 with its bindings.
C7_ReturnsR1 ==
  Resolved =>
    \A R1 \in Registered, R2 \in Registered :
      BothMatch(R1, R2, matched.path) =>
        /\ matched.route = <<R1>>
        /\ matched.vars = match(R1, matched.path)[1]

\* C7 amended: for a path that is no AppleDouble sidecar, the route returned
\* matches, comes with its own bindings, has at most k variables (so it is
\* never R2), and is R1 when no other matching route has k or fewer
\* variables; for a sidecar path tryMatchRoute throws ENOTSUP.
C7_MostSpecificFirst ==
  Resolved =>
    IF IsAppleDouble(matched.path)
    THEN matched.error = unix.ENOTSUP /\ matched.route = <<>>
    ELSE \A R1 \in Registered, R2 \in Registered :
           BothMatch(R1, R2, matched.path) =>
             /\ matched.error = 0
             /\ matched.route # <<>>
             /\ LET r == matched.route[1]
                IN /\ match(r, matched.path) # <<>>
                   /\ matched.vars = match(r, matched.path)[1]
                   /\ matchVarCount(r) <= matchVarCount(R1)
                   /\ r # R2
                   /\ (\A q \in Registered :
                         (match(q, matched.path) # <<>>
                          /\ matchVarCount(q) <= matchVarCount(R1)) => q = R1)
                      => r = R1

\* /tabs/7 resolved to /tabs/:id although /:dir/:name was registered first
C7_Witness ==
  /\ matched.path = <<SegTabs, SegSeven>>
  /\ matched.route = <<RouteTabsId>>
  /\ matched.vars = <<<<<<"i", "d">>, SegSeven>>>>
  /\ \E i \in 1..Len(Routes), j \in 1..Len(Routes) :
       i < j /\ Routes[i] = RouteDirName /\ Routes[j] = RouteTabsId

RECURSIVE ByteLength(_)
ByteLength(str) ==
  IF str = <<>> THEN 0
  ELSE (IF Head(str) < 128 THEN 1 ELSE IF Head(str) < 2048 THEN 2 ELSE 3)
       + ByteLength(Tail(str))

\* the last step was getattr answering after the accessor returned a text
GetattrAnswered ==
  /\ ev.kind = "get"
  /\ ev.req.op = "getattr"
  /\ ev.got # <<>>
  /\ ev.got[1] # <<>>
  /\ ev.resp # <<>>

\* C8: getattr on a content route whose accessor returned D is answered with
\* {id, op, st_mode: regular | 0444 (| 0222 iff the route has a write
\* accessor), st_nlink: 1, st_size: byte length of D's UTF-8 encoding}.
C8_GetattrResponse ==
  GetattrAnswered =>
    ev.resp[1] =
      [id |-> ev.req.id, op |-> "getattr",
       st_mode |-> IF ev.req.path = PathRwTxt THEN 33206 ELSE 33060,
       st_nlink |-> 1,
       st_size |-> ByteLength(ev.got[1][1])]

\* /tabs.json, no write accessor, a one-character text of two bytes
C8_Witness ==
  /\ GetattrAnswered
  /\ ev.req.path = PathTabsJson
  /\ ev.got[1][1] = <<233>>
  /\ ev.resp[1] = [id |-> ev.req.id, op |-> "getattr", st_mode |-> 33060,
                   st_nlink |-> 1, st_size |-> 2]

\* C9: an open whose accessor returned undefined is answered with
\* {id, op: "open", error: ENOENT} and leaves the handle table, the counter
\* and the cached arrays as they were.
C9_OpenNotFound ==
  [][(/\ ev'.kind = "get"
      /\ ev'.req.op = "open"
      /\ ev'.got = << <<>> >>
      /\ ev'.req.id \in DOMAIN reqs)
     => /\ ~reqs[ev'.req.id].didTimeout =>
             ev'.resp = <<[id |-> ev'.req.id, op |-> "open", error |-> unix.ENOENT]>>
        /\ reqs[ev'.req.id].didTimeout => ev'.resp = <<>>
        /\ Cache' = Cache
        /\ heap' = heap]_vars

\* a failed open answered with ENOENT while another handle is open
C9_Witness ==
  /\ ev.kind = "get"
  /\ ev.req.op = "open"
  /\ ev.got = << <<>> >>
  /\ ev.resp = <<[id |-> ev.req.id, op |-> "open", error |-> unix.ENOENT]>>
  /\ Cache.nextHandle = 1
  /\ DOMAIN Cache.store = {1}

\* C10: the counter only grows, every handle open returns is above all
\* handles returned before, and so differs from each of them, released or not.
C10_HandlesNeverReused ==
  [][/\ Cache'.nextHandle >= Cache.nextHandle
     /\ issued \subseteq issued'
     /\ \A h \in DOMAIN Cache'.store \ DOMAIN Cache.store :
          h \notin issued /\ h > Cache.nextHandle /\ h = Cache'.nextHandle
     /\ (/\ ev'.kind = "get"
         /\ ev'.req.op = "open"
         /\ ev'.req.id \in DOMAIN reqs
         /\ ev'.got # <<>>
         /\ ev'.got[1] # <<>>)
        => /\ Cache'.nextHandle = Cache.nextHandle + 1
           /\ Cache'.nextHandle \in DOMAIN Cache'.store
           /\ Cache'.nextHandle \notin issued
           /\ \A i \in issued : Cache'.nextHandle > i
           /\ ev'.resp # <<>> => ev'.resp[1].fh = Cache'.nextHandle]_vars

\* open returned 2 after handle 1 had been returned and released
C10_Witness ==
  /\ ev.kind = "get"
  /\ ev.req.op = "open"
  /\ Succeeded
  /\ ev.resp[1].fh = 2
  /\ issued = {1, 2}
  /\ DOMAIN Cache.store = {2}

\* the result fields each operation's handler returns
PayloadFields(op) ==
  IF op = "getattr" THEN {"st_mode", "st_nlink", "st_size"}
  ELSE IF op = "open" THEN {"fh"}
  ELSE IF op = "read" THEN {"buf"}
  ELSE IF op = "write" THEN {"size"}
  ELSE {}

ErrorCodes == {unix.ENOENT, unix.EIO, unix.ENOTSUP, unix.ETIMEDOUT}

\* r answers req: it has req's id and op, and besides them either an error
\* code alone or the result fields of the operation alone
WellFormed(r, req) ==
  /\ {"id", "op"} \subseteq DOMAIN r
  /\ r.id = req.id
  /\ r.op = req.op
  /\ IF "error" \in DOMAIN r
     THEN DOMAIN r = {"id", "op", "error"} /\ r.error \in ErrorCodes
     ELSE DOMAIN r \ {"id", "op"} = PayloadFields(req.op)

\* C11: every response posted carries the id and the op of its request and
\* either the handler's result fields or an error code, never both.
C11_ResponseShape ==
  /\ \A i \in 1..Len(ev.sent) : WellFormed(ev.sent[i], ev.req)
  /\ \A id \in DOMAIN reqs :
       \A i \in 1..Len(reqs[id].sent) : WellFormed(reqs[id].sent[i], reqs[id].req)

\* a read answered with a payload
C11_Witness ==
  /\ ev.req.op = "read"
  /\ ev.resp # <<>>
  /\ DOMAIN ev.resp[1] = {"id", "op", "buf"}
  /\ ev.resp[1].buf # <<>>
  /\ ev.resp[1].id = ev.req.id

\* the last step was onMessage starting on a new request
Received == nextId' = nextId + 1

\* the last step ended the handling of a request before its timer had fired
SettledInTime ==
  /\ ev'.kind \in {"recv", "get", "set"}
  /\ ev'.req.id \notin DOMAIN reqs'
  /\ ev'.kind # "recv" => ~reqs[ev'.req.id].didTimeout

AnswersError(code) ==
  ev'.resp = <<[id |-> ev'.req.id, op |-> ev'.req.op, error |-> code]>>

\* the route serving a content path
RouteOf(path) == IF path = PathRwTxt THEN RouteRwTxt ELSE RouteTabsJson

\* C12: every failure raised while a request is handled becomes an error
\* response, with the UnixError's own code or else EIO, so every request
\* received is answered at once or is pending with its timer armed.
C12_FailuresAnswered ==
  [][/\ Received => (ev'.resp # <<>> \/ ev'.req.id \in DOMAIN reqs')
     /\ (SettledInTime /\ ev'.kind = "recv") =>
          LET path == ev'.req.path
              op == ev'.req.op
          IN /\ IsAppleDouble(path) => AnswersError(unix.ENOTSUP)
             /\ (path \in OtherPaths /\ ~IsAppleDouble(path)
                 /\ \A i \in 1..Len(Routes) : match(Routes[i], path) = <<>>)
                => AnswersError(unix.ENOENT)
             /\ (path \in OtherPaths /\ ~IsAppleDouble(path)
                 /\ \E i \in 1..Len(Routes) : match(Routes[i], path) # <<>>)
                => AnswersError(unix.EIO)
             /\ op = "readdir" => AnswersError(unix.EIO)
             /\ (op \in {"read", "write"} /\ ev'.req.fh \notin DOMAIN Cache.store)
                => AnswersError(unix.EIO)
             /\ (op = "write" /\ ~RouteOf(path).setData) => AnswersError(unix.EIO)
     /\ (SettledInTime /\ ev'.kind = "get") =>
          LET op == ev'.req.op
          IN /\ ev'.got = <<>> => AnswersError(unix.EIO)
             /\ (ev'.got = << <<>> >> /\ op \in {"getattr", "open"})
                => AnswersError(unix.ENOENT)
             /\ (ev'.got = << <<>> >> /\ op = "truncate") => AnswersError(unix.EIO)
             /\ (op = "truncate" /\ ~RouteOf(ev'.req.path).setData)
                => AnswersError(unix.EIO)
     /\ (SettledInTime /\ ev'.kind = "set") =>
          (Succeeded' \/ AnswersError(unix.EIO))]_vars

\* C13: a request whose path ends in a sidecar name ("._" and at least one
\* more character) is answered with ENOTSUP in the step that receives it; no
\* handler is started for it, no accessor is called, and the handle cache and
\* its arrays are left as they were.
C13_SidecarRejected ==
  [][(Received /\ ev'.kind = "recv" /\ IsAppleDouble(ev'.req.path))
     => /\ AnswersError(unix.ENOTSUP)
        /\ ev'.sent = ev'.resp
        /\ reqs' = reqs
        /\ ev'.got = <<>>
        /\ ev'.arg = <<>>
        /\ Cache' = Cache
        /\ heap' = heap
        /\ opened' = opened]_vars

\* /tabs/._x, which the pattern /tabs/:id matches, rejected while a handle is
\* open
C13_Witness ==
  /\ ev.kind = "recv"
  /\ ev.req.path = <<SegTabs, SegSidecar>>
  /\ ev.resp = <<[id |-> ev.req.id, op |-> ev.req.op, error |-> unix.ENOTSUP]>>
  /\ match(RouteTabsId, ev.req.path) # <<>>
  /\ DOMAIN Cache.store # {}

\* no registered route matches path, and path is no sidecar path
Unrouted(path) ==
  /\ ~IsAppleDouble(path)
  /\ \A i \in 1..Len(Routes) : match(Routes[i], path) = <<>>

\* C14: a request whose path matches no registered route and is no sidecar
\* path is answered in the step that receives it with the one response
\* {id, op, error: ENOENT}; its timer is cleared in that step, and no
\* ETIMEDOUT response is ever posted for such a request.
C14_UnroutedNotFound ==
  [][/\ (Received /\ ev'.kind = "recv" /\ Unrouted(ev'.req.path))
        => /\ AnswersError(unix.ENOENT)
           /\ ev'.sent = ev'.resp
           /\ ev'.req.id \notin DOMAIN reqs'
           /\ Cache' = Cache
     /\ \A id \in DOMAIN reqs' : ~Unrouted(reqs'[id].req.path)
     /\ ev'.kind = "timer" => ~Unrouted(ev'.req.path)]_vars

\* "/._" is no sidecar name and no route matches it
C14_Witness ==
  /\ ev.kind = "recv"
  /\ ev.req.path = <<SegDotUnderscore>>
  /\ ev.sent = <<[id |-> ev.req.id, op |-> ev.req.op, error |-> unix.ENOENT]>>
  /\ ev.req.id \notin DOMAIN reqs

\* the last step was write calling the write accessor
WriteCalls ==
  /\ Received
  /\ ev'.kind = "recv"
  /\ ev'.req.op = "write"
  /\ ev'.req.fh \in DOMAIN Cache.store
  /\ RouteOf(ev'.req.path).setData

\* the last step was a write answered with success right after its call of
\* the write accessor
WriteSucceeds ==
  /\ ev'.kind = "set"
  /\ ev'.req.op = "write"
  /\ Succeeded'
  /\ ev.kind = "recv"
  /\ ev.req = ev'.req

ReadStep ==
  /\ Received
  /\ ev'.kind = "recv"
  /\ ev'.req.op = "read"
  /\ ev'.req.fh \in DOMAIN Cache.store

\* C16: read(h, offset, size) on an open handle whose buffer has L bytes is
\* answered with success and the min(size, max(0, L - offset)) bytes
\* buffer[offset .. offset + size), which are no bytes when offset >= L, and
\* leaves the handle table and the buffers unchanged.
C16_ReadSlice ==
  [][ReadStep =>
       LET b == Bytes(ev'.req.fh)
           o == ev'.req.offset
           n == Min(ev'.req.size, Max(0, Len(b) - o))
       IN /\ ev'.resp # <<>>
          /\ DOMAIN ev'.resp[1] = {"id", "op", "buf"}
          /\ atob(ev'.resp[1].buf) = [i \in 1..n |-> b[o + i]]
          /\ o >= Len(b) => ev'.resp[1].buf = <<>>
          /\ Cache' = Cache
          /\ heap' = heap]_vars

\* a read of two bytes at offset 1, the end of a one-byte buffer: no bytes,
\* and no error
C16_Witness ==
  /\ ev.kind = "recv"
  /\ ev.req.op = "read"
  /\ ev.req.fh \in DOMAIN Cache.store
  /\ Len(Bytes(ev.req.fh)) = 1
  /\ ev.req.offset = 1
  /\ ev.req.size = 2
  /\ ev.resp = <<[id |-> ev.req.id, op |-> "read", buf |-> <<>>]>>

\* a write was answered with success and the next request is the read of the
\* range it wrote, on the same handle
ReadBack ==
  /\ ev.kind = "set"
  /\ ev.req.op = "write"
  /\ Succeeded
  /\ ReadStep
  /\ ev'.req.fh = ev.req.fh
  /\ ev'.req.offset = ev.req.offset
  /\ ev'.req.size = Len(ev.req.buf)

\* C17: a write carrying the payload B (bytes 0..255) is answered with
\* size = len(B), and the read of len(B) bytes at the same offset of the same
\* handle that follows it returns B.
C17_BinaryRoundTrip ==
  [][/\ (ev'.kind = "set" /\ ev'.req.op = "write" /\ Succeeded')
        => ev'.resp[1].size = Len(ev'.req.buf)
     /\ ReadBack => atob(ev'.resp[1].buf) = ev.req.buf]_vars

\* C18: a write through handle h leaves the buffer of every other open handle
\* as it was, on the same path or another one.
C18_WriteTouchesOneHandle ==
  [][WriteStep =>
       \A g \in DOMAIN Cache.store \ {ev'.req.fh} :
         /\ g \in DOMAIN Cache'.store
         /\ heap'[Cache'.store[g].object] = Bytes(g)]_vars

\* the last step ran the handler of a write or truncate request up to its
\* end, and answered the request with an error
ChangeRefused ==
  /\ ev'.kind \in {"recv", "get"}
  /\ ev'.req.op \in {"write", "truncate"}
  /\ ev'.resp # <<>>
  /\ "error" \in DOMAIN ev'.resp[1]

\* C19: a write or truncate request that is answered with an error response
\* leaves the buffer of every open handle as it was.
C19_FailedChangeKeepsBuffers ==
  [][ChangeRefused =>
       \A h \in DOMAIN Cache.store :
         /\ h \in DOMAIN Cache'.store
         /\ heap'[Cache'.store[h].object] = Bytes(h)]_vars

\* C20: a handle enters the handle table only in a step that delivers its id
\* to the host in a successful open response; in particular the handler of an
\* open that was answered with ETIMEDOUT adds no entry when it finishes.
C20_HandlesKnownToHost ==
  [][/\ \A h \in DOMAIN Cache'.store \ DOMAIN Cache.store :
          ev'.resp = <<[id |-> ev'.req.id, op |-> "open", fh |-> h]>>
     /\ (/\ ev'.kind = "get"
         /\ ev'.req.op = "open"
         /\ ev'.sent = <<ExpectedTimeout(ev'.req)>>)
        => DOMAIN Cache'.store = DOMAIN Cache.store]_vars

====
